---- MODULE Spec2Model ----
(***************************************************************************)
(* Model of the Twitter API backend (src/server.ts, kept in                *)
(* src/unnamed/part_002): the Token Guard `withAuth`, the protected route  *)
(* handlers (revoke, verify, like, retweet, stats) and the OAuth callback. *)
(*                                                                         *)
(* Node runs one synchronous stretch of a handler at a time and switches   *)
(* between requests only at an `await`.  Every action below is one such    *)
(* stretch: it starts when a request arrives or when an awaited provider   *)
(* or database call returns, and it ends at the next `await` or at the     *)
(* response.  The provider (twitter-api-sdk) and the database (prisma) are *)
(* the environment: each awaited call may succeed or throw.                *)
(***************************************************************************)
EXTENDS Integers, Sequences, FiniteSets, TLC

\* ---------------------------------------------------------------- bounds
\* Instants are compared only with the expiresAt of the request that reads
\* the clock, so one clock value with expiries before, at and after it
\* covers every outcome of the comparison.
NReq == 2          \* requests of one behaviour, in flight together or in turn
MaxLogins == 2     \* logins of one behaviour
Now == 2           \* Date.now(); expiresAt ranges over 0..Now + 1

\* ------------------------------------------------------------- constants
STATE_ == "twitter-auth-state"   \* const STATE (STATE is a TLA+ reserved word)

\* Request slots.  Spec admits requests to the first NReq of them; the
\* last one is taken only in the behaviours of SpecStats, which need a
\* third request.
Reqs == 1..(NReq + 1)
MainReqs == 1..NReq
Accounts == {"A", "B"}          \* external (provider) account ids
TweetIds == {"t1"}
NoId == ""                      \* an absent / empty string field
NoExp == -1                     \* an absent expiresAt

\* ---------------------------------------------------------------- tokens
\* A token string is modelled by its kind, the account the provider issued
\* it for and the grant that issued it: 0 for a token the client brought
\* from an earlier session, r for one issued to request r while it was in
\* flight.  The empty / absent string is NoTok.
NoTok == [kind |-> "none", acct |-> NoId, gen |-> 0]
AccessTok(a, g) == [kind |-> "at", acct |-> a, gen |-> g]
RefreshTok(a, g) == [kind |-> "rt", acct |-> a, gen |-> g]

\* expires_at of a token the provider issues: an instant after Date.now().
IssuedExpiry == Now + 1

\* JavaScript truthiness of the values the guard tests.
TruthyTok(t) == t # NoTok
TruthyStr(s) == s # NoId
TruthyNum(n) == n # NoExp /\ n # 0

\* interface TokenData / authClient.token
Pair(at, rt, exp) == [accessToken |-> at, refreshToken |-> rt, expiresAt |-> exp]
NoPair == Pair(NoTok, NoTok, NoExp)

VARIABLES
  authToken,  \* authClient.token, the module-level OAuth2User singleton
  users,      \* table User
  actions,    \* table UserAction (in creation order)
  req,        \* per request: route, body, position, the handler's locals
              \* (refreshedTokens, res.locals...), response
  calls,      \* per request: provider calls it has made, in order
  dbops,      \* per request: database calls it has made, in order
  overwritten, \* per request: who wrote, after this request's guard
              \* persisted to a User row, to that same row ("refresh" =
              \* another request's guard, "callback" = a callback's upsert)
  server,     \* the process: "listening", "closing" (server.close called),
              \* "disconnecting" (awaiting prisma.$disconnect), "exited"
  aborted,    \* requests whose client closed the connection before the
              \* response
  client,     \* one TwitterApiClient: its stored tokens (this.tokens) and
              \* the requests whose response it has processed
  codeVerifier \* the PKCE code_verifier authClient holds: 0 for none, n
              \* for the one generated while serving the n-th login

vars == <<authToken, users, actions, req, calls, dbops,
          overwritten, server, aborted, client, codeVerifier>>

ProtectedRoutes == {"revoke", "verify", "like", "retweet", "stats"}

NoBody == [accessToken |-> NoTok, refreshToken |-> NoTok, expiresAt |-> NoExp,
           twitterId |-> NoId, tweetId |-> NoId, state |-> NoId, code |-> NoId,
           login |-> 0]

IdleReq == [route |-> "idle", pc |-> "idle", body |-> NoBody,
            refreshedTokens |-> NoPair, refreshFailed |-> FALSE,
            tokenData |-> NoPair, localsTwitterId |-> NoId,
            cbTokenData |-> NoPair, handler |-> FALSE, userId |-> NoId,
            dbUser |-> <<>>, success |-> FALSE, stats |-> <<>>,
            actionFailed |-> FALSE, data |-> "none", verifier |-> 0,
            status |-> 0, error |-> "", resSuccess |-> "none",
            resData |-> "none", tokens |-> NoPair, resTwitterId |-> NoId]

\* One provider call: which endpoint, the bearer / grant token it carried,
\* and the id or code argument.
Call(kind, token, arg) == [kind |-> kind, token |-> token, arg |-> arg]

\* One database call: result is "pending" from the call to its return.
DbOp(op, key, data, result, matched) ==
  [op |-> op, key |-> key, data |-> data, result |-> result, matched |-> matched]

\* class TwitterApiClient: this.tokens (interface TokenData, twitterId
\* optional) or null.
ClientTokens(at, rt, exp, id) ==
  [accessToken |-> at, refreshToken |-> rt, expiresAt |-> exp, twitterId |-> id]
NoClientTokens == ClientTokens(NoTok, NoTok, NoExp, NoId)
NoClient == [tokens |-> NoClientTokens, received |-> {}]

\* The store when the server starts: empty (a fresh migration), or holding
\* the row and one logged action of account "A" from an earlier session.
SeededUser == [id |-> <<"A", 1>>, twitterId |-> "A",
               accessToken |-> AccessTok("A", 0),
               refreshToken |-> RefreshTok("A", 0), tokenExpiresAt |-> 1]
SeededAction == [userId |-> <<"A", 1>>, tweetId |-> "t1", action |-> "like",
                 success |-> TRUE]

Init ==
  /\ authToken = NoPair
  /\ \/ users = {} /\ actions = <<>>
     \/ users = {SeededUser} /\ actions = <<SeededAction>>
  /\ req = [r \in Reqs |-> IdleReq]
  /\ calls = [r \in Reqs |-> <<>>]
  /\ dbops = [r \in Reqs |-> <<>>]
  /\ overwritten = [r \in Reqs |-> {}]
  /\ server = "listening"
  /\ aborted = {}
  /\ client = NoClient
  /\ codeVerifier = 0

\* -------------------------------------------------------------- database
\* model User (display attributes and timestamps are not modelled); the
\* uuid of a row is written <<"user", n>>, n counting the rows created for
\* that twitterId.
UserRow(id, twitterId, data) ==
  [id |-> id, twitterId |-> twitterId, accessToken |-> data.accessToken,
   refreshToken |-> data.refreshToken, tokenExpiresAt |-> data.expiresAt]

ActionRow_AlwaysSuccess(userId, tweetId, action, success) ==
  [userId |-> userId, tweetId |-> tweetId, action |-> action, success |-> TRUE]

\* model UserAction
ActionRow(userId, tweetId, action, success) ==
  [userId |-> userId, tweetId |-> tweetId, action |-> action, success |-> success]

Matching(us, key) == {u \in us : u.twitterId = key}

\* prisma.user.updateMany({ where: { twitterId }, data })
UpdateMany(us, key, data) ==
  {IF u.twitterId = key THEN UserRow(u.id, u.twitterId, data) ELSE u : u \in us}

Upsert_AlwaysCreate(us, key, data) ==
  us \cup {UserRow(<<key, Cardinality(Matching(us, key)) + 1>>, key, data)}

\* prisma.user.upsert({ where: { twitterId }, update, create })
Upsert(us, key, data) ==
  IF Matching(us, key) # {}
  THEN UpdateMany(us, key, data)
  ELSE us \cup {UserRow(<<key, Cardinality(Matching(us, key)) + 1>>, key, data)}

UserActionCreate_ReplacesLast(log, row) ==
  IF log = <<>> THEN <<row>> ELSE [log EXCEPT ![Len(log)] = row]

\* prisma.userAction.create({ data }): one more row in the table.
UserActionCreate(log, row) == Append(log, row)

\* prisma.userAction.count({ where: { userId, action?, success? } }); an
\* absent condition is written "any".
CountWhere(log, userId, action, success) ==
  Cardinality({i \in 1..Len(log) :
                 /\ log[i].userId = userId
                 /\ action \in {"any", log[i].action}
                 /\ success \in {"any", IF log[i].success THEN "true" ELSE "false"}})

\* The completed guard update of request r, if it has one.
Persisted(ops) ==
  {i \in 1..Len(ops) : ops[i].op = "updateMany" /\ ops[i].result = "ok"}

\* Request w writes the User row keyed `key`: every other request in
\* flight whose guard had persisted to that row is marked.
MarkOverwritten(w, key, kind) ==
  [r \in Reqs |->
     IF r # w /\ req[r].pc \notin {"idle", "done"}
        /\ \E i \in Persisted(dbops[r]) : dbops[r][i].key = key
     THEN overwritten[r] \cup {kind}
     ELSE overwritten[r]]

\* The last database call of a request returns.
Returned(ops, result, matched) ==
  [ops EXCEPT ![Len(ops)].result = result, ![Len(ops)].matched = matched]

\* Requests take the slots in the order they arrive.
Arrives(r) ==
  /\ server = "listening"
  /\ req[r].pc = "idle"
  /\ \A q \in Reqs : q < r => req[q].pc # "idle"

\* Request r is at the await named pc and the process is alive to resume it.
At(r, pc) == server # "exited" /\ req[r].pc = pc

\* ------------------------------------------------------------- responses
\* res.status(status).json({ error })
RespondError(rq, status, error) ==
  [rq EXCEPT !.pc = "done", !.status = status, !.error = error]

\* ...(res.locals.tokenData ? { tokens: res.locals.tokenData } : {})
TokensField(rq) == rq.tokenData

\* res.json({ ..., tokens? }) of verify, like, retweet and stats
RespondOk(rq, succ) ==
  [rq EXCEPT !.pc = "done", !.status = 200, !.resSuccess = succ,
             !.resData = rq.data, !.tokens = TokensField(rq)]

FailMessage(route) ==
  CASE route = "revoke"  -> "Failed to revoke token"
    [] route = "verify"  -> "Failed to verify user"
    [] route = "like"    -> "Failed to like tweet"
    [] route = "retweet" -> "Failed to retweet"
    [] route = "stats"   -> "Failed to get user stats"
    [] OTHER             -> "Authentication failed"

\* ------------------------------------------------------------ Token Guard
MissingToken_BothAbsent(body) ==
  ~TruthyTok(body.accessToken) /\ ~TruthyTok(body.refreshToken)

\* if (!accessToken || !refreshToken)
MissingToken(body) ==
  ~TruthyTok(body.accessToken) \/ ~TruthyTok(body.refreshToken)

\* if (expiresAt && now >= expiresAt)
NeedsRefresh(body, t) == TruthyNum(body.expiresAt) /\ t >= body.expiresAt

KeptRefreshToken_NoFallback(newRt, oldRt) == newRt

\* refreshedTokens.token.refresh_token || refreshToken
KeptRefreshToken(newRt, oldRt) == IF TruthyTok(newRt) THEN newRt ELSE oldRt

\* res.locals.tokenData = { ... }
GuardTokenData(newTok, body) ==
  Pair(newTok.accessToken,
       KeptRefreshToken(newTok.refreshToken, body.refreshToken),
       newTok.expiresAt)

PersistWanted_Always(body) == TRUE

\* if (twitterId) { await prisma.user.updateMany(...) }
PersistWanted(body) == TruthyStr(body.twitterId)

GuardUpdateData_StaleAccess(newTok, body) ==
  Pair(body.accessToken,
       KeptRefreshToken(newTok.refreshToken, body.refreshToken),
       newTok.expiresAt)

\* data: { accessToken, refreshToken, tokenExpiresAt } of prisma.user.updateMany
GuardUpdateData(newTok, body) ==
  Pair(newTok.accessToken,
       KeptRefreshToken(newTok.refreshToken, body.refreshToken),
       newTok.expiresAt)

\* The first synchronous stretch of a route handler.  The Client built by
\* `new Client(authClient)` holds the singleton, so a provider call carries
\* whatever authClient.token is when the call is made (tok).
HandlerEntry(rq, tok, cl) ==
  IF rq.route = "revoke"
  THEN [rq |-> [rq EXCEPT !.pc = "revoking"],
        cl |-> Append(cl, Call("revoke", tok.accessToken, NoId))]
  ELSE IF rq.route \in {"like", "retweet"} /\ ~TruthyStr(rq.body.tweetId)
  THEN [rq |-> RespondError(rq, 400, "Tweet ID is required"), cl |-> cl]
  ELSE [rq |-> [rq EXCEPT !.pc = "whoami"],
        cl |-> Append(cl, Call("whoami", tok.accessToken, NoId))]

\* res.locals.twitterClient = new Client(authClient);
\* if (twitterId) res.locals.twitterId = twitterId;  next();
Proceed(rq, tok, cl) ==
  HandlerEntry([rq EXCEPT !.handler = TRUE,
                          !.localsTwitterId = rq.body.twitterId], tok, cl)

AwaitPersist_FireAndForget(rq, tok, cl) == Proceed(rq, tok, cl)

\* await prisma.user.updateMany(...): the guard waits for the update.
AwaitPersist(rq, tok, cl) == [rq |-> [rq EXCEPT !.pc = "persisting"], cl |-> cl]

GuardCatch_Bubbles(rq) == RespondError(rq, 500, "An unexpected error occurred")

\* catch (error) { return res.status(401).json({ error: 'Authentication failed' }) }
GuardCatch(rq) == RespondError(rq, 401, "Authentication failed")

\* A protected request arrives: withAuth up to its first await.
StartRequest(r, route, body) ==
  /\ Arrives(r)
  /\ LET rq0 == [IdleReq EXCEPT !.route = route, !.body = body]
         tok == Pair(body.accessToken, body.refreshToken, body.expiresAt)
     IN IF MissingToken(body)
        THEN /\ req' = [req EXCEPT ![r] =
                          RespondError(rq0, 401, "Authentication required")]
             /\ calls' = [calls EXCEPT ![r] = <<>>]
             /\ authToken' = authToken
        ELSE /\ authToken' = tok
             /\ IF NeedsRefresh(body, Now)
                THEN /\ req' = [req EXCEPT ![r] =
                                 [rq0 EXCEPT !.pc = "refreshing"]]
                     /\ calls' = [calls EXCEPT ![r] =
                                   <<Call("refresh", tok.refreshToken, NoId)>>]
                ELSE LET h == Proceed(rq0, tok, <<>>)
                     IN /\ req' = [req EXCEPT ![r] = h.rq]
                        /\ calls' = [calls EXCEPT ![r] = h.cl]
  /\ dbops' = [dbops EXCEPT ![r] = <<>>]
  /\ overwritten' = [overwritten EXCEPT ![r] = {}]
  /\ UNCHANGED <<server, aborted, client, codeVerifier,
                 users, actions>>

\* await authClient.refreshAccessToken() returns or throws.
RefreshReturns(r, ok, rotate) ==
  /\ At(r, "refreshing")
  /\ LET rq == req[r]
         a == rq.body.refreshToken.acct
         newTok == Pair(AccessTok(a, r),
                        IF rotate THEN RefreshTok(a, r) ELSE NoTok,
                        IssuedExpiry)
         rq1 == [rq EXCEPT !.refreshedTokens = newTok,
                           !.tokenData = GuardTokenData(newTok, rq.body)]
         h == IF PersistWanted(rq.body)
              THEN AwaitPersist(rq1, newTok, calls[r])
              ELSE Proceed(rq1, newTok, calls[r])
     IN IF ~ok
        THEN /\ ~rotate
             /\ req' = [req EXCEPT ![r] =
                          GuardCatch([rq EXCEPT !.refreshFailed = TRUE])]
             /\ UNCHANGED <<authToken, calls, dbops>>
        ELSE /\ authToken' = newTok
             /\ req' = [req EXCEPT ![r] = h.rq]
             /\ calls' = [calls EXCEPT ![r] = h.cl]
             /\ dbops' = IF PersistWanted(rq.body)
                         THEN [dbops EXCEPT ![r] = Append(@,
                                DbOp("updateMany", rq.body.twitterId,
                                     GuardUpdateData(newTok, rq.body), "pending", 0))]
                         ELSE dbops
  /\ UNCHANGED <<server, aborted, client, codeVerifier,
                 users, actions, overwritten>>

\* await prisma.user.updateMany(...) returns or throws; then next().
PersistReturns(r, ok) ==
  /\ At(r, "persisting")
  /\ LET rq == req[r]
         op == dbops[r][Len(dbops[r])]
     IN IF ~ok
        THEN /\ req' = [req EXCEPT ![r] = GuardCatch(rq)]
             /\ dbops' = [dbops EXCEPT ![r] = Returned(@, "error", 0)]
             /\ UNCHANGED <<users, calls, overwritten>>
        ELSE LET h == Proceed(rq, authToken, calls[r])
             IN /\ users' = UpdateMany(users, op.key, op.data)
                /\ dbops' = [dbops EXCEPT ![r] =
                     Returned(@, "ok", Cardinality(Matching(users, op.key)))]
                /\ overwritten' = MarkOverwritten(r, op.key, "refresh")
                /\ req' = [req EXCEPT ![r] = h.rq]
                /\ calls' = [calls EXCEPT ![r] = h.cl]
  /\ UNCHANGED <<server, aborted, client, codeVerifier,
                 authToken, actions>>

\* ------------------------------------------------------- route handlers
LookupKey_Asserted(rq) == rq.localsTwitterId

\* prisma.user.findFirst({ where: { twitterId: userId } }): the key is the
\* id the who-am-I lookup returned.
LookupKey(rq) == rq.userId

\* await client.users.findMyUser() returns or throws.  The provider
\* answers for the account whose access token the call carried.
WhoAmIReturns(r, ok) ==
  /\ At(r, "whoami")
  /\ LET rq == req[r]
         id == calls[r][Len(calls[r])].token.acct
         rq1 == [rq EXCEPT !.userId = id]
     IN IF ~ok
        THEN /\ req' = [req EXCEPT ![r] =
                          RespondError(rq, 500, FailMessage(rq.route))]
             /\ UNCHANGED <<calls, dbops>>
        ELSE CASE rq.route = "verify" ->
                    /\ req' = [req EXCEPT ![r] = RespondOk(rq1, "none")]
                    /\ UNCHANGED <<calls, dbops>>
               [] rq.route \in {"like", "retweet"} ->
                    /\ req' = [req EXCEPT ![r] = [rq1 EXCEPT !.pc = "acting"]]
                    /\ calls' = [calls EXCEPT ![r] =
                         Append(@, Call(rq.route, authToken.accessToken, id))]
                    /\ dbops' = dbops
               [] rq.route = "stats" ->
                    /\ req' = [req EXCEPT ![r] = [rq1 EXCEPT !.pc = "finding"]]
                    /\ dbops' = [dbops EXCEPT ![r] =
                         Append(@, DbOp("findFirst", LookupKey(rq1), NoPair, "pending", 0))]
                    /\ calls' = calls
  /\ UNCHANGED <<server, aborted, client, codeVerifier,
                 authToken, users, actions, overwritten>>

ActionOutcome_SuccessBeforeAwait(rq, ok) ==
  [rq EXCEPT !.success = TRUE, !.data = IF ok THEN "response" ELSE "error"]

\* try { likeResponse = await ...; success = true }
\* catch (likeError) { success = false; likeResponse = likeError }
ActionOutcome(rq, ok) ==
  [rq EXCEPT !.success = ok, !.data = IF ok THEN "response" ELSE "error"]

\* await client.tweets.usersIdLike / usersIdRetweets returns or throws
\* (caught: success = false), then the logging block starts.
ActionReturns(r, ok) ==
  /\ At(r, "acting")
  /\ LET rq == ActionOutcome([req[r] EXCEPT !.actionFailed = ~ok], ok)
     IN IF TruthyStr(rq.localsTwitterId)
        THEN /\ req' = [req EXCEPT ![r] = [rq EXCEPT !.pc = "finding"]]
             /\ dbops' = [dbops EXCEPT ![r] =
                  Append(@, DbOp("findFirst", LookupKey(rq), NoPair, "pending", 0))]
        ELSE /\ req' = [req EXCEPT ![r] =
                          RespondOk(rq, IF rq.success THEN "true" ELSE "false")]
             /\ dbops' = dbops
  /\ UNCHANGED <<server, aborted, client, codeVerifier,
                 authToken, users, actions, calls,
                 overwritten>>

\* await prisma.user.findFirst({ where: { twitterId: userId } }) returns.
FindReturns(r, ok) ==
  /\ At(r, "finding")
  /\ LET rq == req[r]
         found == Matching(users, LookupKey(rq))
     IN IF ~ok
        THEN /\ req' = [req EXCEPT ![r] =
                          RespondError(rq, 500, FailMessage(rq.route))]
             /\ dbops' = [dbops EXCEPT ![r] = Returned(@, "error", 0)]
        ELSE IF found = {}
        THEN /\ req' = [req EXCEPT ![r] =
                  IF rq.route = "stats"
                  THEN RespondError(rq, 404, "User not found in database")
                  ELSE RespondOk(rq, IF rq.success THEN "true" ELSE "false")]
             /\ dbops' = [dbops EXCEPT ![r] = Returned(@, "ok", 0)]
        ELSE LET u == CHOOSE u \in found : TRUE
             IN /\ req' = [req EXCEPT ![r] =
                     [rq EXCEPT !.dbUser = u.id,
                                !.pc = IF rq.route = "stats" THEN "counting"
                                       ELSE "logging"]]
                /\ dbops' = [dbops EXCEPT ![r] =
                     Append(Returned(@, "ok", 1),
                            IF rq.route = "stats"
                            THEN DbOp("count", rq.userId, NoPair, "pending", 0)
                            ELSE DbOp("create", rq.userId,
                                      ActionRow(u.id, rq.body.tweetId, rq.route,
                                                rq.success),
                                      "pending", 0))]
  /\ UNCHANGED <<server, aborted, client, codeVerifier,
                 authToken, users, actions, calls,
                 overwritten>>

\* await prisma.userAction.create({ data }) returns or throws.
CreateReturns(r, ok) ==
  /\ At(r, "logging")
  /\ LET rq == req[r]
         op == dbops[r][Len(dbops[r])]
     IN IF ~ok
        THEN /\ req' = [req EXCEPT ![r] =
                          RespondError(rq, 500, FailMessage(rq.route))]
             /\ dbops' = [dbops EXCEPT ![r] = Returned(@, "error", 0)]
             /\ actions' = actions
        ELSE /\ actions' = UserActionCreate(actions, op.data)
             /\ dbops' = [dbops EXCEPT ![r] = Returned(@, "ok", 1)]
             /\ req' = [req EXCEPT ![r] =
                          RespondOk(rq, IF rq.success THEN "true" ELSE "false")]
  /\ UNCHANGED <<server, aborted, client, codeVerifier,
                 authToken, users, calls, overwritten>>

\* The k-th query of prisma.$transaction([count x 5]).
StatsQuery(k, log, userId) ==
  CASE k = 1 -> CountWhere(log, userId, "any", "any")
    [] k = 2 -> CountWhere(log, userId, "like", "any")
    [] k = 3 -> CountWhere(log, userId, "retweet", "any")
    [] k = 4 -> CountWhere(log, userId, "any", "true")
    [] k = 5 -> CountWhere(log, userId, "any", "false")

\* The database runs the next of the first four queries of the
\* transaction.  No isolation level is passed to $transaction, so under the
\* default of the datasource (postgresql: read committed) each query reads
\* the rows committed when that query starts.
CountNext(r) ==
  /\ At(r, "counting")
  /\ Len(req[r].stats) < 4
  /\ req' = [req EXCEPT ![r].stats =
                Append(@, StatsQuery(Len(@) + 1, actions, req[r].dbUser))]
  /\ UNCHANGED <<server, aborted, client, codeVerifier,
                 authToken, users, actions, calls,
                 dbops, overwritten>>

\* await prisma.$transaction([count x 5]) returns, after its last query, or
\* throws.
CountReturns(r, ok) ==
  /\ At(r, "counting")
  /\ ok => Len(req[r].stats) = 4
  /\ LET rq == req[r]
         st == Append(rq.stats, StatsQuery(5, actions, rq.dbUser))
     IN IF ~ok
        THEN /\ req' = [req EXCEPT ![r] =
                          RespondError([rq EXCEPT !.stats = <<>>], 500,
                                       FailMessage(rq.route))]
             /\ dbops' = [dbops EXCEPT ![r] = Returned(@, "error", 0)]
        ELSE /\ req' = [req EXCEPT ![r] =
                          RespondOk([rq EXCEPT !.stats = st], "none")]
             /\ dbops' = [dbops EXCEPT ![r] = Returned(@, "ok", 1)]
  /\ UNCHANGED <<server, aborted, client, codeVerifier,
                 authToken, users, actions, calls,
                 overwritten>>

\* await authClient.revokeAccessToken() returns or throws.
RevokeReturns(r, ok) ==
  /\ At(r, "revoking")
  /\ req' = [req EXCEPT ![r] =
       IF ok THEN [req[r] EXCEPT !.pc = "done", !.status = 200,
                                 !.resSuccess = "true"]
       ELSE RespondError(req[r], 500, FailMessage("revoke"))]
  /\ UNCHANGED <<server, aborted, client, codeVerifier,
                 authToken, users, actions, calls, dbops,
                 overwritten>>

\* -------------------------------------------------------- OAuth callback
\* res.redirect(`${FRONTEND_URL}/auth-success?${new URLSearchParams(...)}`)
Redirect(rq, twitterId) ==
  [rq EXCEPT !.pc = "done", !.status = 302, !.tokens = rq.cbTokenData,
             !.resTwitterId = twitterId]

StateMismatch_AbsentAccepted(state) == state # STATE_ /\ state # NoId

\* if (state !== STATE)
StateMismatch(state) == state # STATE_

\* GET /auth/login: authClient.generateAuthURL({ state: STATE,
\* code_challenge_method: 's256' }) and res.json({ authUrl }).  The handler
\* keeps nothing of its own; the code_verifier behind the challenge of the
\* URL is held by authClient, where each login replaces the last one's.
Login ==
  /\ server = "listening"
  /\ codeVerifier < MaxLogins
  /\ codeVerifier' = codeVerifier + 1
  /\ UNCHANGED <<authToken, users, actions, req, calls, dbops, overwritten,
                 server, aborted, client>>

\* authClient.requestAccessToken(code): the handler passes the code only;
\* the code_verifier of the exchange is the one authClient holds.
ExchangeVerifier(rq) == codeVerifier

\* GET /auth/callback arrives: the state check and the token exchange call.
\* The authorization code stands for the account that granted it and for
\* the login whose URL (and challenge) it was granted through; login 0 is a
\* login that is not followed.
StartCallback(r, state, code, login) ==
  /\ Arrives(r)
  /\ LET rq1 == [IdleReq EXCEPT !.route = "callback",
                                !.body = [NoBody EXCEPT !.state = state,
                                                        !.code = code,
                                                        !.login = login]]
         rq0 == IF StateMismatch(state) THEN rq1
                ELSE [rq1 EXCEPT !.verifier = ExchangeVerifier(rq1)]
     IN IF StateMismatch(state)
        THEN /\ req' = [req EXCEPT ![r] =
                          RespondError(rq0, 400, "Invalid state parameter")]
             /\ calls' = [calls EXCEPT ![r] = <<>>]
        ELSE /\ req' = [req EXCEPT ![r] = [rq0 EXCEPT !.pc = "exchanging"]]
             /\ calls' = [calls EXCEPT ![r] = <<Call("exchange", NoTok, code)>>]
  /\ dbops' = [dbops EXCEPT ![r] = <<>>]
  /\ overwritten' = [overwritten EXCEPT ![r] = {}]
  /\ UNCHANGED <<server, aborted, client, codeVerifier,
                 authToken, users, actions>>

\* await authClient.requestAccessToken(code) returns or throws; on success
\* the singleton keeps the issued token and tempClient gets its own copy.
ExchangeReturns(r, ok) ==
  /\ At(r, "exchanging")
  /\ LET rq == req[r]
         a == rq.body.code
         tk == Pair(AccessTok(a, r), RefreshTok(a, r), IssuedExpiry)
     IN IF ~ok
        THEN /\ req' = [req EXCEPT ![r] =
                          RespondError(rq, 500, "Authentication failed")]
             /\ UNCHANGED <<authToken, calls>>
        ELSE /\ authToken' = tk
             /\ req' = [req EXCEPT ![r] =
                          [rq EXCEPT !.cbTokenData = tk, !.pc = "cbwhoami"]]
             /\ calls' = [calls EXCEPT ![r] =
                          Append(@, Call("whoami", tk.accessToken, NoId))]
  /\ UNCHANGED <<server, aborted, client, codeVerifier,
                 users, actions, dbops, overwritten>>

\* await tempClient.users.findMyUser() returns (with or without data) or
\* throws.
CallbackWhoAmIReturns(r, ok, hasData) ==
  /\ At(r, "cbwhoami")
  /\ LET rq == req[r]
         id == calls[r][Len(calls[r])].token.acct
     IN IF ~ok
        THEN /\ ~hasData
             /\ req' = [req EXCEPT ![r] =
                          RespondError(rq, 500, "Authentication failed")]
             /\ dbops' = dbops
        ELSE IF hasData
        THEN /\ req' = [req EXCEPT ![r] =
                          [rq EXCEPT !.userId = id, !.pc = "upserting"]]
             /\ dbops' = [dbops EXCEPT ![r] =
                  Append(@, DbOp("upsert", id, rq.cbTokenData, "pending", 0))]
        ELSE /\ req' = [req EXCEPT ![r] = Redirect(rq, NoId)]
             /\ dbops' = dbops
  /\ UNCHANGED <<server, aborted, client, codeVerifier,
                 authToken, users, actions, calls,
                 overwritten>>

\* await prisma.user.upsert(...) returns or throws; then the redirect.
UpsertReturns(r, ok) ==
  /\ At(r, "upserting")
  /\ LET rq == req[r]
         op == dbops[r][Len(dbops[r])]
     IN IF ~ok
        THEN /\ req' = [req EXCEPT ![r] =
                          RespondError(rq, 500, "Authentication failed")]
             /\ dbops' = [dbops EXCEPT ![r] = Returned(@, "error", 0)]
             /\ UNCHANGED <<users, overwritten>>
        ELSE /\ users' = Upsert(users, op.key, op.data)
             /\ dbops' = [dbops EXCEPT ![r] =
                  Returned(@, "ok", Cardinality(Matching(users, op.key)))]
             /\ overwritten' = MarkOverwritten(r, op.key, "callback")
             /\ req' = [req EXCEPT ![r] = Redirect(rq, rq.userId)]
  /\ UNCHANGED <<server, aborted, client, codeVerifier,
                 authToken, actions, calls>>

\* ---------------------------------------------------------------- inputs
\* Token pairs a client can hold: the pair of an earlier session of either
\* account.  The asserted twitterId is absent or "A", so that it can match
\* or contradict the account of the tokens.
ClientPairs == {<<AccessTok(a, 0), RefreshTok(a, 0)>> : a \in Accounts}
ExpiryChoices == {NoExp} \cup (0..Now + 1)
Body(p, e, id, tw) ==
  [NoBody EXCEPT !.accessToken = p[1], !.refreshToken = p[2],
                 !.expiresAt = e, !.twitterId = id, !.tweetId = tw]
Input(route, body) == [route |-> route, body |-> body]

\* Well-formed protected requests.
ValidInputs ==
  {Input(route, Body(p, e, id, IF route \in {"like", "retweet"} THEN "t1" ELSE NoId)) :
     route \in ProtectedRoutes, p \in ClientPairs, e \in ExpiryChoices,
     id \in {NoId, "A"}}
\* Protected requests with a token field missing or empty.
TokenlessInputs ==
  {Input(route, Body(p, e, "A", IF route \in {"like", "retweet"} THEN "t1" ELSE NoId)) :
     route \in ProtectedRoutes, e \in {NoExp, 1},
     p \in {<<NoTok, RefreshTok("A", 0)>>, <<AccessTok("A", 0), NoTok>>}}
\* Like and retweet requests without a tweetId.
TweetlessInputs ==
  {Input(route, Body(<<AccessTok("A", 0), RefreshTok("A", 0)>>, e, id, NoId)) :
     route \in {"like", "retweet"}, e \in ExpiryChoices, id \in {NoId, "A"}}
\* OAuth callbacks: the state parameter (right, wrong or absent) and the
\* account behind the code.
CallbackInputs ==
  {Input("callback", [NoBody EXCEPT !.state = st, !.code = c]) :
     st \in {STATE_, "WRONG", NoId}, c \in Accounts}
Inputs == ValidInputs \cup TokenlessInputs \cup TweetlessInputs \cup CallbackInputs

\* The requests explored next to every other request: one of each way a
\* request touches what requests share (authClient.token, a User row, the
\* action log).
CoreInputs ==
  { Input("verify", Body(<<AccessTok("B", 0), RefreshTok("B", 0)>>, NoExp, NoId, NoId)),
    Input("verify", Body(<<AccessTok("B", 0), RefreshTok("B", 0)>>, 1, "A", NoId)),
    Input("like", Body(<<AccessTok("A", 0), RefreshTok("A", 0)>>, NoExp, "A", "t1")),
    Input("callback", [NoBody EXCEPT !.state = STATE_, !.code = "A"]) }

\* Of the requests of one behaviour, at most one is outside CoreInputs.
Admitted(r, in) ==
  \/ in \in CoreInputs
  \/ \A q \in Reqs : q < r => Input(req[q].route, req[q].body) \in CoreInputs

Next ==
  \/ \E r \in MainReqs, in \in Inputs \ CallbackInputs :
        Admitted(r, in) /\ StartRequest(r, in.route, in.body)
  \/ \E r \in Reqs, ok \in BOOLEAN, rotate \in BOOLEAN :
        RefreshReturns(r, ok, rotate)
  \/ \E r \in Reqs, ok \in BOOLEAN : PersistReturns(r, ok)
  \/ \E r \in Reqs, ok \in BOOLEAN : WhoAmIReturns(r, ok)
  \/ \E r \in Reqs, ok \in BOOLEAN : ActionReturns(r, ok)
  \/ \E r \in Reqs, ok \in BOOLEAN : FindReturns(r, ok)
  \/ \E r \in Reqs, ok \in BOOLEAN : CreateReturns(r, ok)
  \/ \E r \in Reqs : CountNext(r)
  \/ \E r \in Reqs, ok \in BOOLEAN : CountReturns(r, ok)
  \/ \E r \in Reqs, ok \in BOOLEAN : RevokeReturns(r, ok)
  \/ \E r \in MainReqs, in \in CallbackInputs :
        Admitted(r, in)
        /\ StartCallback(r, in.body.state, in.body.code, in.body.login)
  \/ \E r \in Reqs, ok \in BOOLEAN : ExchangeReturns(r, ok)
  \/ \E r \in Reqs, ok \in BOOLEAN, hasData \in BOOLEAN :
        CallbackWhoAmIReturns(r, ok, hasData)
  \/ \E r \in Reqs, ok \in BOOLEAN : UpsertReturns(r, ok)

Spec == Init /\ [][Next]_vars

\* -------------------------------------------- repeated /user/stats calls
\* A store in which two accounts have logged in: the seeded row of "A" with
\* its logged action, and a row an earlier callback created for "B".
LoggedInUser == UserRow(<<"B", 1>>, "B",
                        Pair(AccessTok("B", 0), RefreshTok("B", 0), IssuedExpiry))

InitStats ==
  /\ authToken = NoPair
  /\ users = {SeededUser, LoggedInUser}
  /\ actions = <<SeededAction>>
  /\ req = [r \in Reqs |-> IdleReq]
  /\ calls = [r \in Reqs |-> <<>>]
  /\ dbops = [r \in Reqs |-> <<>>]
  /\ overwritten = [r \in Reqs |-> {}]
  /\ server = "listening"
  /\ aborted = {}
  /\ client = NoClient
  /\ codeVerifier = 0

\* The client of account "A" asks for its statistics (with a live or an
\* expired access token), each call after the answer to the one before,
\* while the client of account "B" verifies its session; nobody likes or
\* retweets.
StatsInputs ==
  {Input("stats", Body(<<AccessTok("A", 0), RefreshTok("A", 0)>>, e, id, NoId)) :
     e \in {NoExp, 1}, id \in {NoId, "A"}}
  \cup {Input("verify", Body(<<AccessTok("B", 0), RefreshTok("B", 0)>>, NoExp, NoId, NoId))}

\* The client awaits each response before it sends the next request.
InTurn(in) ==
  in.route = "stats" => \A q \in Reqs : req[q].route = "stats" => req[q].pc = "done"

NextStats ==
  \/ \E r \in Reqs, in \in StatsInputs :
        InTurn(in) /\ StartRequest(r, in.route, in.body)
  \/ \E r \in Reqs, ok \in BOOLEAN, rotate \in BOOLEAN :
        RefreshReturns(r, ok, rotate)
  \/ \E r \in Reqs, ok \in BOOLEAN : PersistReturns(r, ok)
  \/ \E r \in Reqs, ok \in BOOLEAN : WhoAmIReturns(r, ok)
  \/ \E r \in Reqs, ok \in BOOLEAN : FindReturns(r, ok)
  \/ \E r \in Reqs : CountNext(r)
  \/ \E r \in Reqs, ok \in BOOLEAN : CountReturns(r, ok)

SpecStats == InitStats /\ [][NextStats]_vars

\* ------------------------------------------------------ graceful shutdown
\* server.close(callback) counts connections, not handlers: the connection
\* of a request is open from its arrival to its response unless the client
\* closed it first.
ConnectionOpen(r) == req[r].pc \notin {"idle", "done"} /\ r \notin aborted

\* process.on('SIGTERM', ...): server.close(...) stops the listener.
Sigterm ==
  /\ server = "listening"
  /\ server' = "closing"
  /\ UNCHANGED <<authToken, users, actions, req, calls, dbops, overwritten,
                 aborted, client, codeVerifier>>

\* A client gives up (timeout, closed tab) and closes its connection while
\* its request is being handled; the handler goes on.
ClientAborts(r) ==
  /\ server # "exited"
  /\ ConnectionOpen(r)
  /\ aborted' = aborted \cup {r}
  /\ UNCHANGED <<authToken, users, actions, req, calls, dbops, overwritten,
                 server, client, codeVerifier>>

\* The callback of server.close runs once every connection has ended and
\* calls prisma.$disconnect().
CloseCallback ==
  /\ server = "closing"
  /\ \A r \in Reqs : ~ConnectionOpen(r)
  /\ server' = "disconnecting"
  /\ UNCHANGED <<authToken, users, actions, req, calls, dbops, overwritten,
                 aborted, client, codeVerifier>>

\* await prisma.$disconnect() returns: process.exit(0).
DisconnectReturns ==
  /\ server = "disconnecting"
  /\ server' = "exited"
  /\ UNCHANGED <<authToken, users, actions, req, calls, dbops, overwritten,
                 aborted, client, codeVerifier>>

\* Requests served while the signal arrives: a like that logs its action
\* and a verify.
ShutdownInputs ==
  { Input("like", Body(<<AccessTok("A", 0), RefreshTok("A", 0)>>, NoExp, "A", "t1")),
    Input("verify", Body(<<AccessTok("B", 0), RefreshTok("B", 0)>>, NoExp, NoId, NoId)) }

NextShutdown ==
  \/ \E r \in MainReqs, in \in ShutdownInputs : StartRequest(r, in.route, in.body)
  \/ \E r \in Reqs, ok \in BOOLEAN : WhoAmIReturns(r, ok)
  \/ \E r \in Reqs, ok \in BOOLEAN : ActionReturns(r, ok)
  \/ \E r \in Reqs, ok \in BOOLEAN : FindReturns(r, ok)
  \/ \E r \in Reqs, ok \in BOOLEAN : CreateReturns(r, ok)
  \/ \E r \in Reqs : ClientAborts(r)
  \/ Sigterm
  \/ CloseCallback
  \/ DisconnectReturns

SpecShutdown == Init /\ [][NextShutdown]_vars

\* ------------------------------------------------------ the example client
\* handleAuthSuccess: the client stores what the callback's redirect
\* carried, twitterId included.  The access token of that session has
\* expired by the time of the requests below.
LoggedInClient ==
  [tokens |-> ClientTokens(AccessTok("A", 0), RefreshTok("A", 0), 1, "A"),
   received |-> {}]

InitClient ==
  /\ authToken = NoPair
  /\ users = {SeededUser}
  /\ actions = <<SeededAction>>
  /\ req = [r \in Reqs |-> IdleReq]
  /\ calls = [r \in Reqs |-> <<>>]
  /\ dbops = [r \in Reqs |-> <<>>]
  /\ overwritten = [r \in Reqs |-> {}]
  /\ server = "listening"
  /\ aborted = {}
  /\ client = LoggedInClient
  /\ codeVerifier = 0

\* body: JSON.stringify({ ...body, accessToken, refreshToken, expiresAt,
\* twitterId }) from this.tokens
ClientBody(tokens, tweetId) ==
  Body(<<tokens.accessToken, tokens.refreshToken>>, tokens.expiresAt,
       tokens.twitterId, tweetId)

\* likeTweet / retweet: makeAuthenticatedRequest up to `await fetch`.  The
\* caller awaits each call, so the response to the one before has been
\* processed.
ClientSends(r, route) ==
  /\ client.tokens # NoClientTokens
  /\ \A q \in Reqs : req[q].pc # "idle" => q \in client.received
  /\ StartRequest(r, route, ClientBody(client.tokens, "t1"))

\* setTokens(data.tokens): this.tokens = tokens.  The server's tokens field
\* is { accessToken, refreshToken, expiresAt }: it has no twitterId.
SetTokens(old, data) ==
  ClientTokens(data.accessToken, data.refreshToken, data.expiresAt, NoId)

\* const data = await response.json(); if (data.tokens) this.setTokens(...)
ClientReceives(r) ==
  /\ req[r].pc = "done"
  /\ r \notin client.received
  /\ client' = [tokens |-> IF req[r].tokens # NoPair
                           THEN SetTokens(client.tokens, req[r].tokens)
                           ELSE client.tokens,
                received |-> client.received \cup {r}]
  /\ UNCHANGED <<authToken, users, actions, req, calls, dbops, overwritten,
                 server, aborted, codeVerifier>>

NextClient ==
  \/ \E r \in Reqs, route \in {"like", "retweet"} : ClientSends(r, route)
  \/ \E r \in Reqs, ok \in BOOLEAN, rotate \in BOOLEAN :
        RefreshReturns(r, ok, rotate)
  \/ \E r \in Reqs, ok \in BOOLEAN : PersistReturns(r, ok)
  \/ \E r \in Reqs, ok \in BOOLEAN : WhoAmIReturns(r, ok)
  \/ \E r \in Reqs, ok \in BOOLEAN : ActionReturns(r, ok)
  \/ \E r \in Reqs, ok \in BOOLEAN : FindReturns(r, ok)
  \/ \E r \in Reqs, ok \in BOOLEAN : CreateReturns(r, ok)
  \/ \E r \in Reqs : ClientReceives(r)

SpecClient == InitClient /\ [][NextClient]_vars

\* ------------------------------------------------------- OAuth flows
\* The behaviours that follow each login: logins, the callbacks of the
\* codes granted through them, and protected requests next to them.  The
\* provider accepts an exchange only if the code_verifier it carries is
\* the one behind the challenge the code was granted for.
ChallengeVerified(r) == req[r].verifier = req[r].body.login

FlowCallbacks ==
  {Input("callback", [NoBody EXCEPT !.state = STATE_, !.code = c, !.login = l]) :
     c \in Accounts, l \in 1..MaxLogins}
FlowInputs ==
  { Input("verify", Body(<<AccessTok("B", 0), RefreshTok("B", 0)>>, NoExp, NoId, NoId)),
    Input("verify", Body(<<AccessTok("B", 0), RefreshTok("B", 0)>>, 1, "A", NoId)) }

NextFlows ==
  \/ Login
  \/ \E r \in MainReqs, in \in FlowCallbacks :
        /\ in.body.login <= codeVerifier
        /\ StartCallback(r, in.body.state, in.body.code, in.body.login)
  \/ \E r \in Reqs, ok \in BOOLEAN :
        (ok => ChallengeVerified(r)) /\ ExchangeReturns(r, ok)
  \/ \E r \in Reqs, ok \in BOOLEAN, hasData \in BOOLEAN :
        CallbackWhoAmIReturns(r, ok, hasData)
  \/ \E r \in Reqs, ok \in BOOLEAN : UpsertReturns(r, ok)
  \/ \E r \in MainReqs, in \in FlowInputs : StartRequest(r, in.route, in.body)
  \/ \E r \in Reqs, ok \in BOOLEAN, rotate \in BOOLEAN :
        RefreshReturns(r, ok, rotate)
  \/ \E r \in Reqs, ok \in BOOLEAN : PersistReturns(r, ok)
  \/ \E r \in Reqs, ok \in BOOLEAN : WhoAmIReturns(r, ok)

SpecFlows == Init /\ [][NextFlows]_vars

\* ===================================================================
\* Properties
\* ===================================================================
ProtectedReq(r) == req[r].route \in ProtectedRoutes
IsDone(r) == req[r].pc = "done"
DownstreamKinds == {"whoami", "like", "retweet", "revoke"}
CallIdx(r, kinds) == {i \in 1..Len(calls[r]) : calls[r][i].kind \in kinds}
OpIdx(r, op) == {i \in 1..Len(dbops[r]) : dbops[r][i].op = op}
OkOps(r, op) == {i \in OpIdx(r, op) : dbops[r][i].result = "ok"}
Refreshed(r) == req[r].refreshedTokens # NoPair
\* The refresh token the replacement pair must carry.
ExpectedRefreshToken(r) ==
  IF req[r].refreshedTokens.refreshToken = NoTok
  THEN req[r].body.refreshToken
  ELSE req[r].refreshedTokens.refreshToken
\* The replacement pair of a request whose guard refreshed.
ReplacementPair(r) ==
  Pair(req[r].refreshedTokens.accessToken, ExpectedRefreshToken(r),
       req[r].refreshedTokens.expiresAt)

\* C1: a protected request whose body lacks a non-empty accessToken or
\* refreshToken is answered 401 'Authentication required'; it makes no
\* provider call and no database call, and its route handler never runs.
C1_MissingTokenRejected ==
  \A r \in Reqs :
    (ProtectedReq(r)
       /\ (req[r].body.accessToken = NoTok \/ req[r].body.refreshToken = NoTok))
    => /\ IsDone(r)
       /\ req[r].status = 401
       /\ req[r].error = "Authentication required"
       /\ calls[r] = <<>>
       /\ dbops[r] = <<>>
       /\ ~req[r].handler

C1_Witness ==
  \E r \in Reqs :
    /\ ProtectedReq(r) /\ IsDone(r) /\ req[r].status = 401
    /\ req[r].body.accessToken # NoTok /\ req[r].body.refreshToken = NoTok
    /\ req[r].body.expiresAt = 1

\* C2 (as claimed): a protected request whose expiresAt is in the past makes
\* exactly one refresh call and at most one User update, and every
\* downstream provider call it makes carries the access token that refresh
\* returned.
C2_Claim ==
  \A r \in Reqs :
    (ProtectedReq(r)
       /\ req[r].body.accessToken # NoTok /\ req[r].body.refreshToken # NoTok
       /\ req[r].body.expiresAt \in 1..(Now - 1))
    => /\ Cardinality(CallIdx(r, {"refresh"})) = 1
       /\ Cardinality(OpIdx(r, "updateMany")) <= 1
       /\ \A i \in CallIdx(r, DownstreamKinds) :
            calls[r][i].token = req[r].refreshedTokens.accessToken

\* C3 (as claimed): every provider call made on behalf of a protected
\* request carries the access token that request supplied or the one its
\* own refresh returned, whatever other requests are in flight.
C3_Claim ==
  \A r \in Reqs :
    ProtectedReq(r)
    => \A i \in CallIdx(r, DownstreamKinds) :
         \/ calls[r][i].token = req[r].body.accessToken
         \/ Refreshed(r) /\ calls[r][i].token = req[r].refreshedTokens.accessToken

\* C4 (as claimed): when the guard's User update fails, the route handler
\* still runs, the request is not answered 401, and the response carries
\* the replacement pair.
C4_Claim ==
  \A r \in Reqs :
    (\E i \in OpIdx(r, "updateMany") : dbops[r][i].result = "error")
    => /\ req[r].handler
       /\ IsDone(r) => (req[r].status # 401 /\ req[r].tokens = ReplacementPair(r))
\* C5 (as claimed): every like or retweet request that reached the provider
\* action has created exactly one UserAction row, carrying its action, its
\* tweetId and the success value of its response.
CreatedRows(r) == {dbops[r][i].data : i \in OkOps(r, "create")}
ReachedAction(r) == CallIdx(r, {"like", "retweet"}) # {}
FoundUser(r) == \E i \in OkOps(r, "findFirst") : dbops[r][i].matched = 1
RowOfResponse(r, row) ==
  /\ row.action = req[r].route
  /\ row.tweetId = req[r].body.tweetId
  /\ row.success = (req[r].resSuccess = "true")
  /\ \E u \in users : u.twitterId = req[r].userId /\ u.id = row.userId
  /\ \E k \in 1..Len(actions) : actions[k] = row

C6_Claim ==
  \A r \in Reqs :
    (req[r].route \in {"verify", "like", "retweet", "stats"} /\ IsDone(r))
    => /\ Refreshed(r) => req[r].tokens = ReplacementPair(r)
       /\ ~Refreshed(r) => req[r].tokens = NoPair

\* C7: the moment a protected request completes.
Completes(r) == req[r].pc # "done" /\ req'[r].pc = "done"
RowPairs(us, key) ==
  {Pair(u.accessToken, u.refreshToken, u.tokenExpiresAt) : u \in Matching(us, key)}
\* Request r answers with a replacement pair after its guard updated an
\* existing row of the twitterId it supplied.
PersistedAndAnswers(r) ==
  /\ Completes(r)
  /\ req'[r].route \in ProtectedRoutes
  /\ req'[r].tokens # NoPair
  /\ req'[r].body.twitterId # NoId
  /\ \E i \in 1..Len(dbops'[r]) :
       /\ dbops'[r][i].op = "updateMany"
       /\ dbops'[r][i].result = "ok"
       /\ dbops'[r][i].matched > 0

\* C7 (as claimed): when such a request completes and no other request
\* refreshed for the same user in between, the row holds the pair the
\* response returns.
C7_Claim ==
  [][\A r \in Reqs :
       (PersistedAndAnswers(r) /\ "refresh" \notin overwritten'[r])
       => RowPairs(users', req'[r].body.twitterId) = {req'[r].tokens}]_vars

\* C7 (amended): when such a request completes and no other request wrote
\* that row in between (neither another guard's refresh nor an OAuth
\* callback's upsert), the row holds the pair the response returns.
C7_RowEqualsReturnedPair ==
  [][\A r \in Reqs :
       (PersistedAndAnswers(r) /\ overwritten'[r] = {})
       => RowPairs(users', req'[r].body.twitterId) = {req'[r].tokens}]_vars

C7_Witness ==
  \E r \in Reqs :
    /\ ProtectedReq(r) /\ IsDone(r) /\ req[r].tokens # NoPair
    /\ req[r].body.twitterId # NoId
    /\ \E i \in OkOps(r, "updateMany") : dbops[r][i].matched > 0
    /\ overwritten[r] = {}
    /\ RowPairs(users, req[r].body.twitterId) = {req[r].tokens}

\* C8: whenever the guard refreshed for a request that supplied a twitterId,
\* the User update has completed before the route handler starts and before
\* any downstream provider call; no update is outstanding once the handler
\* runs.
C8_PersistBeforeProceed ==
  \A r \in Reqs :
    (ProtectedReq(r) /\ Refreshed(r) /\ req[r].body.twitterId # NoId
       /\ (req[r].handler \/ CallIdx(r, DownstreamKinds) # {}))
    => /\ OkOps(r, "updateMany") # {}
       /\ \A i \in OpIdx(r, "updateMany") : dbops[r][i].result = "ok"

C8_Witness ==
  \E r \in Reqs :
    /\ ProtectedReq(r) /\ Refreshed(r) /\ req[r].body.twitterId # NoId
    /\ req[r].handler /\ req[r].pc = "whoami"
    /\ OkOps(r, "updateMany") # {}

\* C9: when the refresh grant fails, the request is answered 401
\* 'Authentication failed' after exactly one refresh call; no User update is
\* issued, the route handler does not run and no downstream provider call
\* is made.
C9_RefreshFailureIsTerminal ==
  \A r \in Reqs :
    req[r].refreshFailed
    => /\ IsDone(r)
       /\ req[r].status = 401
       /\ req[r].error = "Authentication failed"
       /\ Cardinality(CallIdx(r, {"refresh"})) = 1
       /\ dbops[r] = <<>>
       /\ ~req[r].handler
       /\ CallIdx(r, DownstreamKinds) = {}

C9_Witness ==
  \E r \in Reqs :
    /\ req[r].refreshFailed /\ IsDone(r) /\ req[r].status = 401
    /\ req[r].body.twitterId # NoId

\* C10: the replacement pair returned to the caller and the pair written to
\* the User row carry the provider's new refresh token when it sent one,
\* and the refresh token the request supplied when it sent none.
C10_RefreshTokenFallback ==
  \A r \in Reqs :
    Refreshed(r)
    => /\ req[r].tokenData.refreshToken = ExpectedRefreshToken(r)
       /\ req[r].tokens # NoPair
            => req[r].tokens.refreshToken = ExpectedRefreshToken(r)
       /\ \A i \in OpIdx(r, "updateMany") :
            dbops[r][i].data.refreshToken = ExpectedRefreshToken(r)

C10_Witness ==
  \E r \in Reqs :
    /\ Refreshed(r) /\ req[r].refreshedTokens.refreshToken = NoTok
    /\ IsDone(r) /\ req[r].tokens.refreshToken = req[r].body.refreshToken
    /\ \E i \in OkOps(r, "updateMany") :
         dbops[r][i].data.refreshToken = req[r].body.refreshToken

\* C11: a failure of the provider's like or retweet call is never answered
\* as a request failure.  Once the call has returned, success is true
\* exactly when it returned without error; a 200 answer carries that
\* success value and the provider's response or error as data; the only
\* error answer left to such a request is the handler's 500 after one of
\* its own database calls threw.
ActionReturned(r) == ReachedAction(r) /\ req[r].pc # "acting"
DbFailed(r) == \E i \in 1..Len(dbops[r]) : dbops[r][i].result = "error"

C11_ProviderFailureIsData ==
  \A r \in Reqs :
    (req[r].route \in {"like", "retweet"} /\ ActionReturned(r))
    => /\ req[r].success = ~req[r].actionFailed
       /\ (IsDone(r) /\ req[r].status = 200)
            => /\ req[r].resSuccess = (IF req[r].actionFailed THEN "false" ELSE "true")
               /\ req[r].resData = (IF req[r].actionFailed THEN "error" ELSE "response")
       /\ (IsDone(r) /\ ~DbFailed(r)) => req[r].status = 200
       /\ (IsDone(r) /\ req[r].status # 200) => req[r].status = 500

C11_Witness ==
  \E r \in Reqs :
    /\ req[r].route = "like" /\ IsDone(r) /\ req[r].actionFailed
    /\ req[r].status = 200 /\ req[r].resSuccess = "false"
    /\ req[r].resData = "error"
    /\ OkOps(r, "create") # {}

\* C12 (as claimed): a like or retweet request that passed the guard with a
\* tweetId and met no database failure is always answered 200, whichever
\* provider call of the handler failed, the who-am-I lookup included.
C12_Claim ==
  \A r \in Reqs :
    (req[r].route \in {"like", "retweet"} /\ req[r].handler
       /\ req[r].body.tweetId # NoId /\ ~DbFailed(r) /\ IsDone(r))
    => req[r].status = 200

\* C13: a callback whose state parameter is not exactly 'twitter-auth-state'
\* (a wrong or an absent state) is answered 400; it sends no token exchange
\* and no who-am-I call, makes no database call, and issues no redirect.
C13_BadStateRejected ==
  \A r \in Reqs :
    (req[r].route = "callback" /\ req[r].body.state # STATE_)
    => /\ IsDone(r)
       /\ req[r].status = 400
       /\ req[r].error = "Invalid state parameter"
       /\ calls[r] = <<>>
       /\ dbops[r] = <<>>
       /\ req[r].tokens = NoPair /\ req[r].resTwitterId = NoId

C13_Witness ==
  \E r \in Reqs :
    /\ req[r].route = "callback" /\ req[r].body.state = NoId
    /\ req[r].body.code = "A" /\ IsDone(r) /\ req[r].status = 400
    /\ users = {}

\* C14: the store never holds two User rows for one twitterId, and when a
\* callback redirects with an external id the store holds exactly one row
\* for that id, carrying the token pair that callback's exchange issued;
\* the row is created if the id had none and updated in place (same row
\* id, no second row) otherwise, and rows of other ids are left alone.
CallbackSucceeds(r) ==
  /\ Completes(r) /\ req'[r].route = "callback"
  /\ req'[r].status = 302 /\ req'[r].resTwitterId # NoId
RowIds(us, key) == {u.id : u \in Matching(us, key)}

C14_UpsertKeepsOneRow ==
  [][/\ \A id \in Accounts : Cardinality(Matching(users', id)) <= 1
     /\ \A r \in Reqs :
          CallbackSucceeds(r)
          => LET id == req'[r].resTwitterId
             IN /\ Cardinality(Matching(users', id)) = 1
                /\ RowPairs(users', id) = {req'[r].cbTokenData}
                /\ req'[r].cbTokenData.accessToken = calls'[r][2].token
                /\ req'[r].tokens = req'[r].cbTokenData
                /\ Matching(users, id) # {} => RowIds(users', id) = RowIds(users, id)
                /\ Cardinality(users') =
                     Cardinality(users) + (IF Matching(users, id) = {} THEN 1 ELSE 0)
                /\ {u \in users' : u.twitterId # id} = {u \in users : u.twitterId # id}]_vars

\* Two callbacks for the same account were in flight together: the first
\* to finish created the row, the second updated it.
C14_Witness ==
  \E r, q \in Reqs :
    /\ r # q
    /\ req[r].route = "callback" /\ req[q].route = "callback"
    /\ req[r].body.code = "A" /\ req[q].body.code = "A"
    /\ IsDone(r) /\ req[r].status = 302 /\ IsDone(q) /\ req[q].status = 302
    /\ \E i \in OkOps(r, "upsert") : dbops[r][i].matched = 0
    /\ \E i \in OkOps(q, "upsert") : dbops[q][i].matched = 1
    /\ RowPairs(users, "A") = {req[q].cbTokenData}
    /\ Cardinality(users) = 1

\* C15 (as claimed): with no like or retweet request at all, any two
\* /user/stats requests made one after the other with the same account's
\* tokens and both answered 200 report the same five counts, and the
\* action log is what it was when the server started.
StatsAnswered(r) == req[r].route = "stats" /\ IsDone(r) /\ req[r].status = 200

C15_Claim ==
  /\ actions = <<SeededAction>>
  /\ \A r, q \in Reqs :
       (StatsAnswered(r) /\ StatsAnswered(q)
          /\ req[r].body.accessToken.acct = req[q].body.accessToken.acct)
       => req[r].stats = req[q].stats

\* C16: no step removes a User row (every row is still there after the
\* step, under the same id and twitterId) and no step removes or changes a
\* UserAction row (the log before the step is a prefix of the log after
\* it); a successful revoke changes neither table.
RevokeSucceeds(r) ==
  Completes(r) /\ req'[r].route = "revoke" /\ req'[r].status = 200

C16_AppendOnly ==
  [][/\ \A u \in users : \E v \in users' : v.id = u.id /\ v.twitterId = u.twitterId
     /\ Len(actions') >= Len(actions)
     /\ SubSeq(actions', 1, Len(actions)) = actions
     /\ \A r \in Reqs :
          RevokeSucceeds(r) => (users' = users /\ actions' = actions)]_vars

\* A revoke has succeeded next to a logged like: the seeded row and both
\* logged actions are in the store.
C16_Witness ==
  \E r \in Reqs :
    /\ req[r].route = "revoke" /\ IsDone(r) /\ req[r].status = 200
    /\ req[r].body.accessToken.acct = "A"
    /\ \E u \in users : u.id = SeededUser.id
    /\ Len(actions) = 2 /\ actions[1] = SeededAction

\* C17 (as claimed): the guard calls the provider's refresh grant exactly
\* for the requests that carry an expiry value at or before the current
\* time; a request with no expiry, or with one in the future, makes no
\* refresh call and no User update and gets no replacement pair.
PassedTokenCheck(r) ==
  ProtectedReq(r) /\ req[r].body.accessToken # NoTok /\ req[r].body.refreshToken # NoTok
ExpiryReached(r) == req[r].body.expiresAt # NoExp /\ Now >= req[r].body.expiresAt

C17_Claim ==
  \A r \in Reqs :
    PassedTokenCheck(r)
    => /\ (CallIdx(r, {"refresh"}) # {}) <=> ExpiryReached(r)
       /\ ~ExpiryReached(r)
            => /\ OpIdx(r, "updateMany") = {}
               /\ req[r].tokenData = NoPair /\ req[r].tokens = NoPair

\* C18: a protected request that supplies no twitterId issues no User
\* update, whether or not its guard refreshes, and no step of such a
\* request changes the User table; when it refreshed and is answered 200 by
\* verify, like, retweet or stats, the replacement pair is in the response.
NoTwitterId(r) == ProtectedReq(r) /\ req[r].body.twitterId = NoId
Acts(r) == req'[r] # req[r]

C18_NoTwitterIdNoPersist ==
  [][\A r \in Reqs :
       (ProtectedReq(r) /\ req'[r].body.twitterId = NoId /\ Acts(r))
       => /\ users' = users
          /\ OpIdx(r, "updateMany") = {}
          /\ \A i \in 1..Len(dbops'[r]) : dbops'[r][i].op # "updateMany"
          /\ (req'[r].pc = "done" /\ req'[r].status = 200
                /\ req'[r].refreshedTokens # NoPair /\ req'[r].route # "revoke")
               => req'[r].tokens = GuardTokenData(req'[r].refreshedTokens, req'[r].body)]_vars

C18_Witness ==
  \E r \in Reqs :
    /\ NoTwitterId(r) /\ Refreshed(r) /\ IsDone(r) /\ req[r].status = 200
    /\ req[r].tokens = req[r].tokenData /\ req[r].tokens # NoPair
    /\ req[r].body.accessToken.acct = "A"
    /\ users = {SeededUser}

\* C19: in a like or retweet request the provider action is issued only
\* after the who-am-I lookup has returned an id, and with that id; every
\* UserAction row the request writes belongs to the User whose twitterId
\* is that id, whatever twitterId the body asserted; a request whose lookup
\* returned no id has sent no like/retweet call and written no row.
ActionReq(r) == req[r].route \in {"like", "retweet"}

C19_LookupDecidesIdentity ==
  \A r \in Reqs :
    ActionReq(r)
    => /\ \A i \in CallIdx(r, {"like", "retweet"}) :
            /\ req[r].userId # NoId
            /\ calls[r][i].arg = req[r].userId
            /\ \E j \in CallIdx(r, {"whoami"}) :
                 j < i /\ calls[r][j].token.acct = req[r].userId
       /\ \A i \in OpIdx(r, "findFirst") : dbops[r][i].key = req[r].userId
       /\ \A i \in OpIdx(r, "create") :
            \E u \in users : u.id = dbops[r][i].data.userId
                             /\ u.twitterId = req[r].userId
       /\ req[r].userId = NoId
            => /\ CallIdx(r, {"like", "retweet"}) = {}
               /\ OpIdx(r, "findFirst") = {} /\ OpIdx(r, "create") = {}

\* The body asserted "A", whose row exists, but the lookup answered "B":
\* the action went out for "B" and nothing was logged against "A".
C19_Witness ==
  \E r \in Reqs :
    /\ ActionReq(r) /\ IsDone(r) /\ req[r].status = 200
    /\ req[r].body.twitterId = "A" /\ req[r].userId = "B"
    /\ \E i \in CallIdx(r, {"like", "retweet"}) : calls[r][i].arg = "B"
    /\ \E i \in OkOps(r, "findFirst") : dbops[r][i].matched = 0
    /\ Matching(users, "A") # {}
    /\ actions = <<SeededAction>>

\* C20 (as claimed): after the termination signal no new request is taken
\* on; prisma.$disconnect() is called, and the process exits, only when
\* every request that had arrived has been answered, so no handler is cut
\* off and none touches the database during or after the disconnect.
C20_Claim ==
  [][/\ server # "listening"
          => \A r \in Reqs : req[r].pc = "idle" => req'[r].pc = "idle"
     /\ server' \in {"disconnecting", "exited"}
          => \A r \in Reqs : req'[r].pc \in {"idle", "done"}
     /\ server \in {"disconnecting", "exited"} => dbops' = dbops]_vars

\* C21 (as claimed): every request the example client sends after it stored
\* a token set with twitterId "A" carries twitterId "A", also after it has
\* adopted a replacement pair; so each of its requests whose guard
\* refreshed issued the User update, and each of its likes and retweets
\* answered 200 was logged.
C21_Claim ==
  \A r \in Reqs :
    req[r].route # "idle"
    => /\ req[r].body.twitterId = "A"
       /\ (Refreshed(r) /\ req[r].handler) => OpIdx(r, "updateMany") # {}
       /\ (IsDone(r) /\ req[r].status = 200) => OkOps(r, "create") # {}

\* C22 (as claimed): the token fields of a User row only ever hold a token
\* pair the provider issued for that row's twitterId, whatever token pair
\* and twitterId the protected requests carried.
C22_Claim ==
  \A u \in users :
    /\ u.accessToken.acct = u.twitterId
    /\ u.refreshToken.acct = u.twitterId

\* C23 (as claimed): in every 200 response of /user/stats the five counts
\* are those of one state of the user's action log (the log is append-only,
\* so one of its prefixes); in particular totalActions = likes + retweets
\* and totalActions = successful + failed.
StatsOf(log, userId) == [k \in 1..5 |-> StatsQuery(k, log, userId)]

C23_Claim ==
  \A r \in Reqs :
    StatsAnswered(r)
    => /\ req[r].stats[1] = req[r].stats[2] + req[r].stats[3]
       /\ req[r].stats[1] = req[r].stats[4] + req[r].stats[5]
       /\ \E n \in 0..Len(actions) :
            req[r].stats = StatsOf(SubSeq(actions, 1, n), req[r].dbUser)

\* C24 (as claimed): every callback with the correct state performs its
\* token exchange with the code_verifier of the login its code was granted
\* through, whatever logins and callbacks were served in between; and no
\* provider call of a protected request carries an access token that a
\* callback's exchange returned.
IsCallback(r) == req[r].route = "callback"
Exchanged(r) == IsCallback(r) /\ CallIdx(r, {"exchange"}) # {}

C24_Claim ==
  /\ \A r \in Reqs : Exchanged(r) => req[r].verifier = req[r].body.login
  /\ \A r, q \in Reqs :
       (ProtectedReq(r) /\ IsCallback(q) /\ req[q].cbTokenData # NoPair)
       => \A i \in CallIdx(r, DownstreamKinds) :
            calls[r][i].token # req[q].cbTokenData.accessToken
====
